---- MODULE Spec2Model ----
(***************************************************************************)
(* A model of optimal_balancer (src/src/main.rs): Config::validate,        *)
(* f64_to_real, construct_model, the Model accessors and the pipeline of   *)
(* main.                                                                   *)
(*                                                                         *)
(* Numbers.  An f64 of the program is held as an integer count of 1e-4     *)
(* (One = 1.0), exact for every input drawn below.  A z3 Real built by     *)
(* f64_to_real has at most three decimals and is held as an integer count  *)
(* of 1e-3 (Precision per unit); a product of two Reals is a count of 1e-6 *)
(* and a product of three is held as a pair <<micro, nano>> standing for   *)
(* micro * 1e-6 + nano * 1e-9 with 0 <= nano < Precision, so that every    *)
(* value the solver compares is exact.                                     *)
(***************************************************************************)
EXTENDS Integers, Sequences, FiniteSets, TLC

VARIABLES opts, config, pc, idx, refreshed, problem, model, table, total, out, err

vars == <<opts, config, pc, idx, refreshed, problem, model, table, total, out, err>>

\* ------------------------------------------------------------ constants
\* The literal 1.0 of validate, in units of 1e-4.
One == 10000
\* The literal 0.01 of validate, in units of 1e-4.
Tolerance == 100
\* "{:.3}": a Real keeps three decimals, so its denominator is 1000.
Precision == 1000

\* ------------------------------------------------------------ bounds
\* The longest fund list of a configuration.
MaxFunds == 2
\* The largest value the backend is taken to give a variable that no
\* constraint bounds from above (any natural number is optimal for it).
MaxFree == 1

\* ------------------------------------------------------------ Option
None == <<>>
Some(x) == <<x>>
IsSome(o) == o /= <<>>
Unwrap(o) == o[1]

Abs(x) == IF x < 0 THEN -x ELSE x

RECURSIVE Gcd(_, _)
Gcd(a, b) == IF b = 0 THEN a ELSE Gcd(b, a % b)

\* ------------------------------------------------------------ inputs
\* Fund records a configuration file may hold (shares, price and
\* target_proportion in units of 1e-4).  No sum of up to MaxFunds + 1 of
\* these proportions lies at distance exactly 0.01 from 1.0, where the
\* rounding of the f64 sum would decide the test of line 42.
Fund(sym, sh, pr, tp) ==
    [symbol |-> sym, shares |-> sh, price |-> pr, target_proportion |-> tp]

FundPool ==
    { Fund("A", 0, 100000, 10000),      \* price 10, the whole portfolio
      Fund("A", 0, 100004, 10000),      \* price 10.0004
      Fund("A", 0, 100000, 10050),      \* proportion 1.005
      Fund("A", 0, 100000, 10200),      \* proportion 1.02
      Fund("A", 20000, 100000, 5000),   \* 2 shares held
      Fund("A", 0, 100000, 5000),
      Fund("A", 0, -10000, 5000),       \* price -1
      Fund("B", 5000, 194567, 5000),    \* half a share held, price 19.4567
      Fund("B", 0, 100000, 5000),
      Fund("B", 0, 0, 5000),            \* price 0
      Fund("B", 0, 4, 5000),            \* price 0.0004
      Fund("B", 0, 100000, 4000) }      \* proportion 0.4

FundLists == UNION { [1..n -> FundPool] : n \in 0..MaxFunds }

\* target_buy of the configuration file: 100, 100.003, 0, -5.
TargetBuys == {1000000, 1000030, 0, -50000}
\* --target-buy on the command line: absent, or 50.
OptTargetBuys == {None, Some(500000)}
\* Closing prices the price service may return: 19.457, 0.0004.
ClosingPrices == {194570, 4}

\* ------------------------------------------------------------ validate
RECURSIVE SumProportions(_)
SumProportions(funds) ==
    IF funds = <<>> THEN 0
    ELSE Head(funds).target_proportion + SumProportions(Tail(funds))

Ok == [ok |-> TRUE]
Err(e) == [ok |-> FALSE, error |-> e]

\* Line 42 with a tolerance of 0.001.
OutOfTolerance_tenth(sum) == Abs(sum - One) > Tolerance \div 10

\* The tolerance test of line 42.
OutOfTolerance(sum) == Abs(sum - One) > Tolerance

\* The price test of line 49: negative sign, or equal to zero.
NotPositive(price) == price < 0 \/ price = 0

\* validate with the price loop before the sum test.
validate_prices_first(c) ==
    LET fund_proportion_sum == SumProportions(c.funds)
        bad == { i \in 1..Len(c.funds) : NotPositive(c.funds[i].price) }
    IN  IF bad /= {}
        THEN LET first == CHOOSE i \in bad : \A j \in bad : i <= j
             IN  Err([kind |-> "price", symbol |-> c.funds[first].symbol])
        ELSE IF OutOfTolerance(fund_proportion_sum)
        THEN Err([kind |-> "proportion_sum", sum |-> fund_proportion_sum])
        ELSE Ok

\* Config::validate: the proportion sum first, then each price in order.
validate(c) ==
    LET fund_proportion_sum == SumProportions(c.funds)
        bad == { i \in 1..Len(c.funds) : NotPositive(c.funds[i].price) }
    IN  IF OutOfTolerance(fund_proportion_sum)
        THEN Err([kind |-> "proportion_sum", sum |-> fund_proportion_sum])
        ELSE IF bad /= {}
        THEN LET first == CHOOSE i \in bad : \A j \in bad : i <= j
             IN  Err([kind |-> "price", symbol |-> c.funds[first].symbol])
        ELSE Ok

\* ------------------------------------------------------------ f64_to_real
\* Three decimals by cutting the rest off (toward zero).
f64_to_real_truncating(val) ==
    LET unit == One \div Precision
    IN  IF val < 0 THEN -((-val) \div unit) ELSE val \div unit

\* format!("{:.3}", val) writes the decimal nearest to val with three
\* decimals (an exact tie goes to the even last digit; no input drawn here
\* is a tie), sign kept, and from_real_str parses that string exactly.
\* The result is the numerator over Precision.
f64_to_real(val) ==
    LET unit == One \div Precision
        m    == Abs(val)
        lo   == m \div unit
        r    == m % unit
        q    == IF 2 * r > unit \/ (2 * r = unit /\ lo % 2 = 1)
                THEN lo + 1 ELSE lo
    IN  IF val < 0 THEN -q ELSE q

\* ------------------------------------------------------------ Real arithmetic
\* A Real with up to nine decimals: <<micro, nano>>, 0 <= nano < Precision.
RNorm(h, l) == <<h + (l \div Precision), l % Precision>>
RZero == <<0, 0>>
RFromMicro(m) == <<m, 0>>
RAdd(x, y) == RNorm(x[1] + y[1], x[2] + y[2])
RNeg(x) == RNorm(-x[1], -x[2])
RLt(x, y) == x[1] < y[1] \/ (x[1] = y[1] /\ x[2] < y[2])
\* A count of 1e-6 times a count of 1e-3.
RMul(t, q) == RNorm((t \div Precision) * q, (t % Precision) * q)

\* ------------------------------------------------------------ construct_model
\* The optimisation problem construct_model hands to the backend: per fund
\* the name of its decision variable (Int::new_const(ctx, symbol), the same
\* constant for the same symbol) and the quantized price, shares and
\* proportion; and the quantized target_buy.
BuildProblem(funds, target_buy) ==
    [ vars       |-> [i \in 1..Len(funds) |-> funds[i].symbol],
      price      |-> [i \in 1..Len(funds) |-> f64_to_real(funds[i].price)],
      shares     |-> [i \in 1..Len(funds) |-> f64_to_real(funds[i].shares)],
      proportion |-> [i \in 1..Len(funds) |-> f64_to_real(funds[i].target_proportion)],
      target_buy |-> f64_to_real(target_buy) ]

\* total_bought under the assignment a, a count of 1e-3 (lines 66, 72).
RECURSIVE BoughtUpTo(_, _, _)
BoughtUpTo(p, a, n) ==
    IF n = 0 THEN 0
    ELSE BoughtUpTo(p, a, n - 1) + a[p.vars[n]] * p.price[n]

total_bought(p, a) == BoughtUpTo(p, a, Len(p.vars))

\* total_existing, a count of 1e-6 (lines 67, 73).
RECURSIVE ExistingUpTo(_, _)
ExistingUpTo(p, n) ==
    IF n = 0 THEN 0
    ELSE ExistingUpTo(p, n - 1) + p.shares[n] * p.price[n]

total_existing(p) == ExistingUpTo(p, Len(p.vars))

\* new_total, a count of 1e-6 (line 76).
new_total(p, a) == total_bought(p, a) * Precision + total_existing(p)

\* delta_from_ideal of fund i (lines 82-83).
delta_from_ideal(p, a, i) ==
    RAdd(RFromMicro(p.price[i] * (a[p.vars[i]] * Precision + p.shares[i])),
         RNeg(RMul(new_total(p, a), p.proportion[i])))

\* The term of fund i: ite(delta < 0, -delta, delta) (lines 84-87).
Deviation(p, a, i) ==
    LET d == delta_from_ideal(p, a, i)
    IN  IF RLt(d, RZero) THEN RNeg(d) ELSE d

RECURSIVE DeviationUpTo(_, _, _)
DeviationUpTo(p, a, n) ==
    IF n = 0 THEN RZero
    ELSE RAdd(DeviationUpTo(p, a, n - 1), Deviation(p, a, n))

\* The penalty for going below the target amount (line 94).
Penalty(p, a) ==
    RFromMicro((p.target_buy - total_bought(p, a)) * f64_to_real(One))

\* The objective handed to optimize.minimize (lines 78-95).
objective(p, a) == RAdd(DeviationUpTo(p, a, Len(p.vars)), Penalty(p, a))

\* ------------------------------------------------------------ the backend
Symbols(p) == { p.vars[i] : i \in 1..Len(p.vars) }

RECURSIVE CoefficientUpTo(_, _, _)
CoefficientUpTo(p, s, n) ==
    IF n = 0 THEN 0
    ELSE CoefficientUpTo(p, s, n - 1) + (IF p.vars[n] = s THEN p.price[n] ELSE 0)

\* The coefficient of variable s in total_bought.
Coefficient(p, s) == CoefficientUpTo(p, s, Len(p.vars))

\* The variables no constraint bounds from above: total_bought and the
\* objective do not depend on them.
FreeSymbols(p) == { s \in Symbols(p) : Coefficient(p, s) = 0 }

\* The largest value of s the budget can allow (prices are >= 0 once
\* validated), or MaxFree for a free variable.
UpperBound(p, s) ==
    IF Coefficient(p, s) > 0
    THEN p.target_buy \div Coefficient(p, s)
    ELSE MaxFree

\* The asserted constraints: v >= 0 (line 70), total_bought < target_buy
\* (line 91).
NonNegative(a) == \A s \in DOMAIN a : a[s] >= 0

\* Line 91 with <= for <.
WithinBudget_or_equal(p, a) == total_bought(p, a) <= p.target_buy

WithinBudget(p, a) == total_bought(p, a) < p.target_buy

\* The assignments that can matter: no variable above its UpperBound.
Candidates(p) ==
    LET top == [s \in Symbols(p) |-> UpperBound(p, s)]
    IN  { a \in UNION { [Symbols(p) -> 0..n] : n \in { top[s] : s \in Symbols(p) } } :
            \A s \in Symbols(p) : a[s] <= top[s] }

\* The feasible set without the assertion of line 91.
Feasible_without_budget(p) == { a \in Candidates(p) : NonNegative(a) }

Feasible(p) == { a \in Candidates(p) : NonNegative(a) /\ WithinBudget(p, a) }

\* optimize.check after optimize.minimize: the feasible assignments of
\* least objective (lines 95-97).
Optimal(p) ==
    LET F   == Feasible(p)
        obj == [a \in F |-> objective(p, a)]
    IN  { a \in F : \A b \in F : ~RLt(obj[b], obj[a]) }

\* ------------------------------------------------------------ Model
\* A solved Model: val, the backend's assignment; wide, the variables whose
\* numeral exceeds i64 (only a free variable can: a bounded one is below
\* target_buy / price); new_total, the expression of line 76, held as the
\* problem it is built from.
SolvedModel(p, a, w) == [val |-> a, wide |-> w, new_total |-> p]

\* Model::optimal_shares: eval of the fund's variable, then as_i64.
optimal_shares(m, fund) ==
    IF fund.symbol \in m.wide THEN None ELSE Some(m.val[fund.symbol])

\* Model::new_portfolio_total: eval of new_total, as_real gives the reduced
\* numerator and denominator, and the f64 is their quotient <<num, den>>.
new_portfolio_total(m) ==
    LET t == new_total(m.new_total, m.val)
        d == Precision * Precision
        g == Gcd(Abs(t), d)
    IN  Some(<<t \div g, d \div g>>)

\* Model::new_proportion: ((shares as f64) + fund.shares) * fund.price / total,
\* held by its operands.
new_proportion(m, fund) ==
    LET s == optimal_shares(m, fund)
        t == new_portfolio_total(m)
    IN  IF s = None THEN None
        ELSE IF t = None THEN None
        ELSE Some([qty |-> Unwrap(s) * One + fund.shares,
                   price |-> fund.price, total |-> Unwrap(t)])

\* ------------------------------------------------------------ main
\* The budget main passes on: --target-buy if given, else the file's.
target_buy(o, c) ==
    IF IsSome(o.target_buy) THEN Unwrap(o.target_buy) ELSE c.target_buy

Init ==
    /\ opts \in [download_current_prices : BOOLEAN, target_buy : OptTargetBuys]
    /\ config \in [target_buy : TargetBuys, funds : FundLists]
    /\ pc = "Unvalidated"
    /\ idx = 0
    /\ refreshed = ~opts.download_current_prices
    /\ problem = None
    /\ model = None
    /\ table = None
    /\ total = 0
    /\ out = <<>>
    /\ err = None

Fail(e) ==
    /\ pc' = "Failed"
    /\ err' = Some(e)

\* Lines 150-151: the banner of the price download.
BeginDownload ==
    /\ pc = "Unvalidated" /\ ~refreshed /\ idx = 0
    /\ out' = Append(out, [kind |-> "downloading"])
    /\ idx' = 1
    /\ UNCHANGED <<opts, config, pc, refreshed, problem, model, table, total, err>>

\* Lines 152-155: fund_price of the next fund fails, or gives its price.
RefreshPrice ==
    /\ pc = "Unvalidated" /\ ~refreshed /\ idx \in 1..Len(config.funds)
    /\ \E r \in {None} \cup { Some(c) : c \in ClosingPrices } :
         IF r = None
         THEN /\ Fail([kind |-> "fund_price", symbol |-> config.funds[idx].symbol])
              /\ UNCHANGED <<config, idx, out>>
         ELSE /\ config' = [config EXCEPT !.funds[idx].price = Unwrap(r)]
              /\ out' = Append(out, [kind |-> "price",
                                     symbol |-> config.funds[idx].symbol,
                                     price |-> Unwrap(r)])
              /\ idx' = idx + 1
              /\ UNCHANGED <<pc, err>>
    /\ UNCHANGED <<opts, refreshed, problem, model, table, total>>

\* Line 156: the blank line that ends the download.
EndDownload ==
    /\ pc = "Unvalidated" /\ ~refreshed /\ idx = Len(config.funds) + 1
    /\ out' = Append(out, [kind |-> "blank"])
    /\ refreshed' = TRUE
    /\ idx' = 0
    /\ UNCHANGED <<opts, config, pc, problem, model, table, total, err>>

\* Line 159: config.validate()?
Validate ==
    /\ pc = "Unvalidated" /\ refreshed
    /\ LET r == validate(config)
       IN  IF r.ok
           THEN pc' = "Validated" /\ UNCHANGED err
           ELSE Fail(r.error)
    /\ UNCHANGED <<opts, config, idx, refreshed, problem, model, table, total, out>>

\* Lines 162-169 and 63-95: the variables, constraints and objective.
ConstructModel ==
    /\ pc = "Validated"
    /\ problem' = Some(BuildProblem(config.funds, target_buy(opts, config)))
    /\ pc' = "Modeled"
    /\ UNCHANGED <<opts, config, idx, refreshed, model, table, total, out, err>>

\* Lines 97-102 and 168-169: check, get_model, and ok_or on its result.
Check ==
    /\ pc = "Modeled"
    /\ LET p == Unwrap(problem)
       IN  IF Optimal(p) = {}
           THEN /\ Fail([kind |-> "evaluating model failed"])
                /\ UNCHANGED model
           ELSE /\ \E a \in Optimal(p), w \in SUBSET FreeSymbols(p) :
                     /\ \A s \in w : a[s] = 0
                     /\ model' = Some(SolvedModel(p, a, w))
                /\ pc' = "Solved"
                /\ UNCHANGED err
    /\ UNCHANGED <<opts, config, idx, refreshed, problem, table, total, out>>

\* Lines 171-174: the heading, the empty table and the zero total.
BeginReport ==
    /\ pc = "Solved" /\ table = None
    /\ out' = Append(out, [kind |-> "heading"])
    /\ table' = Some(<<>>)
    /\ total' = 0
    /\ idx' = 1
    /\ UNCHANGED <<opts, config, pc, refreshed, problem, model, err>>

\* Lines 175-190: one fund's row.
ExtractFund ==
    /\ pc = "Solved" /\ IsSome(table) /\ idx \in 1..Len(config.funds)
    /\ LET f      == config.funds[idx]
           shares == optimal_shares(Unwrap(model), f)
           np     == new_proportion(Unwrap(model), f)
       IN  IF shares = None
           THEN /\ Fail([kind |-> "failed to evaluate", symbol |-> f.symbol])
                /\ UNCHANGED <<table, total, idx>>
           ELSE IF np = None
           THEN /\ Fail([kind |-> "unable to get new proportion", symbol |-> f.symbol])
                /\ total' = total + f.price * Unwrap(shares)
                /\ UNCHANGED <<table, idx>>
           ELSE /\ total' = total + f.price * Unwrap(shares)
                /\ table' = Some(Append(Unwrap(table),
                                 [symbol |-> f.symbol,
                                  shares |-> Unwrap(shares),
                                  purchase |-> f.price * Unwrap(shares),
                                  new_proportion |-> Unwrap(np)]))
                /\ idx' = idx + 1
                /\ UNCHANGED <<pc, err>>
    /\ UNCHANGED <<opts, config, refreshed, problem, model, out>>

\* Lines 191-198: the table, the total purchase and the new portfolio total.
PrintReport ==
    /\ pc = "Solved" /\ IsSome(table) /\ idx = Len(config.funds) + 1
    /\ out' = out \o << [kind |-> "table", rows |-> Unwrap(table)],
                        [kind |-> "total_purchase", amount |-> total],
                        [kind |-> "new_portfolio_total",
                         amount |-> Unwrap(new_portfolio_total(Unwrap(model)))] >>
    /\ pc' = "Extracted"
    /\ UNCHANGED <<opts, config, idx, refreshed, problem, model, table, total, err>>

Next ==
    \/ BeginDownload
    \/ RefreshPrice
    \/ EndDownload
    \/ Validate
    \/ ConstructModel
    \/ Check
    \/ BeginReport
    \/ ExtractFund
    \/ PrintReport

Spec == Init /\ [][Next]_vars

\* ============================================================ properties
\* What the properties read of a state.
ErrKind == IF err = None THEN "none" ELSE Unwrap(err).kind

Funds == config.funds

\* validate has run (a failed price download never reaches it).
ValidationRan == refreshed /\ pc /= "Unvalidated"

\* The lines of the report: the heading, the table, the two totals.
ReportKinds == {"heading", "table", "total_purchase", "new_portfolio_total"}

ReportLines == { i \in 1..Len(out) : out[i].kind \in ReportKinds }

\* The sum of the target proportions of the first n funds.
RECURSIVE ProportionSum(_)
ProportionSum(n) ==
    IF n = 0 THEN 0 ELSE ProportionSum(n - 1) + Funds[n].target_proportion

\* Shares times quantized price over the first n funds, for the shares
\* n |-> k[n], a count of 1e-3.
RECURSIVE Spent(_, _)
Spent(k, n) ==
    IF n = 0 THEN 0 ELSE Spent(k, n - 1) + k[n] * f64_to_real(Funds[n].price)

\* The shares the solved model gives each fund.
SolvedShares == [i \in 1..Len(Funds) |-> Unwrap(model).val[Funds[i].symbol]]

QuantizedBudget == f64_to_real(target_buy(opts, config))

\* ------------------------------------------------------------ C1
\* C1: every solved model gives each fund a non-negative integer number of
\* shares, and the shares times the quantized prices sum to strictly less
\* than the quantized target_buy.
C1_HardConstraints ==
    IsSome(model) =>
        /\ \A i \in 1..Len(Funds) : SolvedShares[i] \in Nat
        /\ Spent(SolvedShares, Len(Funds)) < QuantizedBudget

\* A solved model of two funds that spends all but less than one share of
\* the cheaper fund.
C1_Witness ==
    /\ IsSome(model)
    /\ Len(Funds) = 2
    /\ Spent(SolvedShares, 2) > 0
    /\ Spent(SolvedShares, 2) + f64_to_real(Funds[1].price) >= QuantizedBudget

\* ------------------------------------------------------------ C2
\* The largest number of shares of one fund the comparison ranges over.
MaxShares == 10

\* The objective of the specification for the shares k, fund by fund.
RECURSIVE SpecDeviation(_, _, _)
SpecDeviation(k, t, n) ==
    IF n = 0 THEN RZero
    ELSE LET f == Funds[n]
             d == RAdd(RFromMicro(f64_to_real(f.price)
                                  * (k[n] * Precision + f64_to_real(f.shares))),
                       RNeg(RMul(t, f64_to_real(f.target_proportion))))
         IN  RAdd(SpecDeviation(k, t, n - 1),
                  IF RLt(d, RZero) THEN RNeg(d) ELSE d)

RECURSIVE Held(_)
Held(n) ==
    IF n = 0 THEN 0
    ELSE Held(n - 1) + f64_to_real(Funds[n].shares) * f64_to_real(Funds[n].price)

SpecObjective(k) ==
    LET n == Len(Funds)
        t == Spent(k, n) * Precision + Held(n)
    IN  RAdd(SpecDeviation(k, t, n),
             RFromMicro((QuantizedBudget - Spent(k, n)) * Precision))

\* C2: the solved assignment has the least objective among all assignments
\* of non-negative integers to the funds that stay below the budget.
C2_Minimal ==
    IsSome(model) =>
        \A k \in [1..Len(Funds) -> 0..MaxShares] :
            Spent(k, Len(Funds)) < QuantizedBudget
                => ~RLt(SpecObjective(k), SpecObjective(SolvedShares))

\* ------------------------------------------------------------ C3
\* C3: validate reports the proportion sum exactly when the sum lies more
\* than 0.01 from 1.0, and the error carries that sum.
C3_SumTolerance ==
    ValidationRan =>
        LET sum == ProportionSum(Len(Funds))
        IN  /\ (ErrKind = "proportion_sum") <=> (sum < 9900 \/ sum > 10100)
            /\ ErrKind = "proportion_sum" => Unwrap(err).sum = sum

\* A configuration whose proportions sum to 1.005 has passed validation.
C3_Witness ==
    /\ pc = "Validated"
    /\ ProportionSum(Len(Funds)) = 10050

\* ------------------------------------------------------------ C4
NonPositivePrices == { i \in 1..Len(Funds) : Funds[i].price <= 0 }

\* C4: the sum check comes first; if it passes and some price is zero or
\* negative the error names the first such fund; if both fail the sum error
\* is reported.
C4_CheckOrder ==
    ValidationRan =>
        LET sum  == ProportionSum(Len(Funds))
            off  == sum < 9900 \/ sum > 10100
            bad  == NonPositivePrices
        IN  /\ off => ErrKind = "proportion_sum"
            /\ (~off /\ bad /= {}) =>
                   /\ ErrKind = "price"
                   /\ \E i \in bad :
                          /\ \A j \in bad : i <= j
                          /\ Unwrap(err).symbol = Funds[i].symbol
            /\ (~off /\ bad = {}) => ErrKind \notin {"proportion_sum", "price"}

\* Two funds of different symbols both have a non-positive price, the sum
\* check passed, and the price error has been raised.
C4_Witness ==
    /\ ErrKind = "price"
    /\ Len(Funds) = 2
    /\ NonPositivePrices = {1, 2}
    /\ Funds[1].symbol /= Funds[2].symbol

\* ------------------------------------------------------------ C5
\* C5: once a configuration with target_buy <= 0 is modelled, no solved
\* model ever exists, the run fails with the no-solution error, and no line
\* of the report is written.
C5_NoSolution ==
    (IsSome(problem) /\ target_buy(opts, config) <= 0) =>
        /\ model = None
        /\ pc \in {"Modeled", "Failed"}
        /\ pc = "Failed" => ErrKind = "evaluating model failed"
        /\ ReportLines = {}

\* A validated configuration with target_buy <= 0 has failed for want of a
\* solution.
C5_Witness ==
    /\ pc = "Failed"
    /\ IsSome(problem)
    /\ target_buy(opts, config) <= 0
    /\ ErrKind = "evaluating model failed"

\* ------------------------------------------------------------ C6
\* C6: with one fund of proportion 1.0, the solved shares n are the most
\* the budget allows: n * price < target_buy and (n + 1) * price is not.
C6_SingleFundLargest ==
    (IsSome(model) /\ Len(Funds) = 1 /\ Funds[1].target_proportion = One) =>
        LET n == SolvedShares[1]
        IN  /\ n * Funds[1].price < target_buy(opts, config)
            /\ (n + 1) * Funds[1].price >= target_buy(opts, config)

\* ------------------------------------------------------------ C7
\* C7: a configuration that passed validation has no symbol twice.
C7_UniqueSymbols ==
    (ValidationRan /\ ErrKind \notin {"proportion_sum", "price"}) =>
        \A i, j \in 1..Len(Funds) :
            Funds[i].symbol = Funds[j].symbol => i = j

\* ------------------------------------------------------------ C8
Stage(s) ==
    CASE s = "Unvalidated" -> 0
      [] s = "Validated"   -> 1
      [] s = "Modeled"     -> 2
      [] s = "Solved"      -> 3
      [] s = "Extracted"   -> 4
      [] s = "Failed"      -> 5

\* C8: each step keeps the stage, moves to the next one or fails; the model
\* is built only after the download (if asked for) and a passing validate;
\* nothing runs after a failure, and a failed run has written no line of
\* the report.
C8_ForwardNoPartialReport ==
    [][ /\ pc /= "Failed"
        /\ pc' = pc \/ pc' = "Failed" \/ Stage(pc') = Stage(pc) + 1
        /\ pc' = "Modeled" => (refreshed /\ validate(config).ok)
        /\ pc' = "Failed" => { i \in 1..Len(out') : out'[i].kind \in ReportKinds } = {}
      ]_vars

\* ------------------------------------------------------------ C9
\* The inputs of one solve and the Reals built from them.
Quantized ==
    LET p == Unwrap(problem)
    IN  { <<Funds[i].price, p.price[i]>> : i \in 1..Len(Funds) }
        \cup { <<Funds[i].shares, p.shares[i]>> : i \in 1..Len(Funds) }
        \cup { <<Funds[i].target_proportion, p.proportion[i]>> : i \in 1..Len(Funds) }
        \cup { <<target_buy(opts, config), p.target_buy>> }

\* C9 as stated: every Real is its input cut off after three decimals.
C9_Truncated ==
    IsSome(problem) =>
        \A x \in Quantized :
            x[2] = (IF x[1] < 0 THEN -((-x[1]) \div 10) ELSE x[1] \div 10)

\* C9, amended: every Real is a three-decimal number nearest to its input
\* (at most 0.0005 away), so 19.4567 and 19.457 both become 19.457.
C9_RoundedToNearest ==
    IsSome(problem) =>
        \A x \in Quantized :
            /\ 10 * x[2] - x[1] \in -5..5
            /\ x[1] \in {194567, 194570} => x[2] = 19457

\* A fund priced 19.4567 has been given the Real 19.457.
C9_Witness ==
    /\ IsSome(problem)
    /\ <<194567, 19457>> \in Quantized

\* ------------------------------------------------------------ C10
\* C10: the total purchase of a finished report is strictly below the
\* target_buy the user gave.
C10_ReportedTotalBelowBudget ==
    pc = "Extracted" => total < target_buy(opts, config)

====
